---- MODULE Spec2Model ----
(***************************************************************************)
(* Model of the course-catalog service (src/app.py): the flat-file catalog *)
(* store (load_courses / save_courses) and the traced request handlers     *)
(* (course_catalog, add_course, course_details, manual_trace).             *)
(*                                                                         *)
(* Strings that the code trims or compares (field values, lookup keys) are *)
(* sequences of one-character strings, so that str.strip() is computed.    *)
(* The JSON file is modelled by what json.load returns from it: absent,    *)
(* unparsable, or a list of records.                                       *)
(***************************************************************************)
EXTENDS Integers, Sequences, FiniteSets, TLC

(***************************************************************************)
(* Bounds of the model.                                                    *)
(***************************************************************************)
\* initial catalogs hold at most this many records
MaxInitLen == 1
\* at most this many well-formed submissions are started in one behaviour
MaxSubmits == 2
\* request workers (the development server handles each request in a thread)
Procs == {1, 2}

(***************************************************************************)
(* Field values and str.strip().                                           *)
(***************************************************************************)
\* the nine required fields, in the order of the list at app.py:82-84
Fields ==
    <<"code", "name", "instructor", "semester", "schedule",
      "classroom", "prerequisites", "grading", "description">>

FieldSet == {Fields[i] : i \in 1..Len(Fields)}

\* characters str.strip() removes (those used by the inputs below)
Whitespace == {" ", "\t", "\n"}

RECURSIVE LStrip(_)
LStrip(s) ==
    IF s = <<>> THEN s
    ELSE IF Head(s) \in Whitespace THEN LStrip(Tail(s)) ELSE s

RECURSIVE RStrip(_)
RStrip(s) ==
    IF s = <<>> THEN s
    ELSE IF s[Len(s)] \in Whitespace THEN RStrip(SubSeq(s, 1, Len(s) - 1)) ELSE s

\* the value as submitted
NoStrip(s) == s

\* value.lstrip()
StripLeftOnly(s) == LStrip(s)

\* value.strip()
Strip(s) == RStrip(LStrip(s))

\* request.form.get(field, '')
FormGet(form, field) == IF field \in DOMAIN form THEN form[field] ELSE <<>>

\* the dict comprehension of app.py:82-84
ParseForm(form) == [f \in FieldSet |-> Strip(FormGet(form, f))]

\* [key for key, value in course.items() if not value]
MissingFields(c) == SelectSeq(Fields, LAMBDA f : c[f] = <<>>)

\* ", ".join(missing_fields)
RECURSIVE JoinComma(_)
JoinComma(names) ==
    IF names = <<>> THEN ""
    ELSE IF Len(names) = 1 THEN names[1]
    ELSE names[1] \o ", " \o JoinComma(Tail(names))

(***************************************************************************)
(* Inputs.                                                                 *)
(***************************************************************************)
\* raw (code, name) pairs of the submitted forms: padded with whitespace,
\* with whitespace inside, and two of them sharing a code
RawHeads ==
    { << <<"A">>, <<"n">> >>,
      << <<" ", "A", "\t">>, <<"m", " ", "m", "\n">> >>,
      << <<"\n", "B">>, <<" ", "n">> >> }

Filler == <<" ", "x", " ", "y", " ">>

BlankKinds == {"absent", "empty", "space"}

\* the sets of fields a submitted form leaves blank: none, each field alone,
\* two fields, every field
BlankSets == {{}} \cup {{f} : f \in FieldSet} \cup {{"code", "description"}, FieldSet}

\* the form with raw head h, whose fields in B are blank in the way w
MkForm(h, B, w) ==
    LET full == [f \in FieldSet |->
                    IF f \in B THEN (IF w = "space" THEN <<" ", "\t">> ELSE <<>>)
                    ELSE IF f = "code" THEN h[1]
                    ELSE IF f = "name" THEN h[2]
                    ELSE Filler]
    IN  IF w = "absent" THEN [f \in FieldSet \ B |-> full[f]] ELSE full

WellFormedForms == {MkForm(h, {}, "empty") : h \in RawHeads}

BlankedForms ==
    {MkForm(<< <<" ", "A", "\t">>, <<"m", " ", "m", "\n">> >>, B, w) :
        B \in BlankSets \ {{}}, w \in BlankKinds}

Forms == WellFormedForms \cup BlankedForms

\* a record written to the file by hand, its values kept as typed
UntrimmedRecord ==
    [f \in FieldSet |-> IF f = "code" THEN <<"B">> ELSE IF f = "name" THEN <<"n", " ">> ELSE Filler]

\* records a catalog file may hold before the first request
StoredRecords == {ParseForm(f) : f \in WellFormedForms} \cup {UntrimmedRecord}

RECURSIVE SeqsUpTo(_, _)
SeqsUpTo(S, n) ==
    IF n = 0 THEN {<<>>}
    ELSE LET shorter == SeqsUpTo(S, n - 1)
         IN  shorter \cup {Append(s, x) : s \in {t \in shorter : Len(t) = n - 1}, x \in S}

\* lookup keys of /course/<code>
Keys == {<<"A">>, <<"B">>, <<"Z">>}

NoForm == <<>>
NoKey == <<>>

Requests ==
    {[op |-> "add_course", method |-> "POST", form |-> f, key |-> NoKey] : f \in Forms}
    \cup {[op |-> "add_course", method |-> "GET", form |-> NoForm, key |-> NoKey]}
    \cup {[op |-> "course_catalog", method |-> "GET", form |-> NoForm, key |-> NoKey]}
    \cup {[op |-> "course_details", method |-> "GET", form |-> NoForm, key |-> k] : k \in Keys}
    \cup {[op |-> "manual_trace", method |-> "GET", form |-> NoForm, key |-> NoKey]}

NoReq == [op |-> "none", method |-> "none", form |-> NoForm, key |-> NoKey]

(***************************************************************************)
(* The catalog file.                                                       *)
(***************************************************************************)
AbsentFile == [kind |-> "absent", courses |-> <<>>]
MalformedFile == [kind |-> "malformed", courses |-> <<>>]
ValidFile(cs) == [kind |-> "valid", courses |-> cs]

InitFiles ==
    {AbsentFile, MalformedFile} \cup {ValidFile(cs) : cs \in SeqsUpTo(StoredRecords, MaxInitLen)}

\* open() without the os.path.exists test
load_courses_unguarded(f) ==
    IF f.kind = "valid" THEN [ok |-> TRUE, value |-> f.courses, error |-> ""]
    ELSE IF f.kind = "absent" THEN [ok |-> FALSE, value |-> <<>>, error |-> "FileNotFoundError"]
    ELSE [ok |-> FALSE, value |-> <<>>, error |-> "JSONDecodeError"]

\* load_courses() taking a file that does not parse for an empty catalog
load_courses_lenient(f) ==
    IF f.kind = "valid" THEN [ok |-> TRUE, value |-> f.courses, error |-> ""]
    ELSE [ok |-> TRUE, value |-> <<>>, error |-> ""]

\* load_courses(): the empty list when the file is absent, the parsed list
\* when it parses, a raised JSONDecodeError otherwise
load_courses(f) ==
    IF f.kind = "absent" THEN [ok |-> TRUE, value |-> <<>>, error |-> ""]
    ELSE IF f.kind = "valid" THEN [ok |-> TRUE, value |-> f.courses, error |-> ""]
    ELSE [ok |-> FALSE, value |-> <<>>, error |-> "JSONDecodeError"]

(***************************************************************************)
(* Spans.  A request's spans are a map from span name to the span's        *)
(* record; times are ticks of the request's own clock, 0 meaning not set.  *)
(***************************************************************************)
EmptyMap == [x \in {} |-> x]

NoSpan == "none"

\* the span start_as_current_span would take as parent: the innermost span
\* of the request that is still open
CurrentSpan(sp) ==
    LET open == {n \in DOMAIN sp : sp[n].end = 0}
    IN  IF open = {} THEN NoSpan
        ELSE CHOOSE n \in open : \A m \in open : sp[m].start <= sp[n].start

\* tracer.start_as_current_span(name, kind = kind).__enter__()
StartSpan(sp, name, kind, t) ==
    (name :> [parent |-> CurrentSpan(sp), kind |-> kind, start |-> t, end |-> 0,
              attrs |-> EmptyMap, events |-> <<>>]) @@ sp

\* a span that is never ended
EndSpanLeak(sp, name, t) == sp

\* the __exit__ of the with block of span name
EndSpan(sp, name, t) == [sp EXCEPT ![name].end = t]

\* span.set_attribute(k, v)
SetAttr(sp, name, k, v) == [sp EXCEPT ![name].attrs = (k :> v) @@ @]

\* span.add_event(ev, attrs)
AddEvent(sp, name, ev, attrs) ==
    [sp EXCEPT ![name].events = Append(@, [name |-> ev, attrs |-> attrs])]

\* the characters of a key as one string, for f"Course Code: {code}"
RECURSIVE Str(_)
Str(s) == IF s = <<>> THEN "" ELSE Head(s) \o Str(Tail(s))

\* the name of the span each handler opens first
RootName(r) ==
    IF r.op = "course_catalog" THEN "Render course catalog"
    ELSE IF r.op = "add_course" THEN "Add Course Operation"
    ELSE IF r.op = "course_details" THEN "Course Code: " \o Str(r.key)
    ELSE "manual-span"

RootKind(r) == IF r.op = "manual_trace" THEN "SERVER" ELSE "INTERNAL"

FormSpan == "Handle Form Data"
ValidationSpan == "Validate Form Data"
SaveSpan == "Save Course Data"

(***************************************************************************)
(* State.                                                                  *)
(***************************************************************************)
VARIABLES
    file,            \* what COURSE_FILE holds
    pc,              \* where each worker is in its handler
    req,             \* the request each worker handles
    course,          \* add_course: the dict built from the form
    missing_fields,  \* add_course: the list computed by validation
    courses,         \* save_courses: the list read by load_courses and appended to
    spans,           \* the spans of each worker's request
    clock,           \* ticks of each worker's request
    exc,             \* the exception in flight or being handled, "" when none
    retval,          \* the value of the return statement reached
    flashed,         \* the messages flash() stored during the request
    logged,          \* the messages app.logger.error wrote during the request
    resp,            \* the responses delivered for the request
    saveCalls,       \* how many times the request called save_courses
    path,            \* the submit states the request went through
    before,          \* the file as it was when the request arrived
    submitted        \* well-formed submissions started so far

vars ==
    <<file, pc, req, course, missing_fields, courses, spans, clock, exc, retval,
      flashed, logged, resp, saveCalls, path, before, submitted>>

NoCourse == EmptyMap
NoValue == [kind |-> "none"]

Init ==
    /\ file \in InitFiles
    /\ pc = [p \in Procs |-> "idle"]
    /\ req = [p \in Procs |-> NoReq]
    /\ course = [p \in Procs |-> NoCourse]
    /\ missing_fields = [p \in Procs |-> <<>>]
    /\ courses = [p \in Procs |-> <<>>]
    /\ spans = [p \in Procs |-> EmptyMap]
    /\ clock = [p \in Procs |-> 0]
    /\ exc = [p \in Procs |-> ""]
    /\ retval = [p \in Procs |-> NoValue]
    /\ flashed = [p \in Procs |-> <<>>]
    /\ logged = [p \in Procs |-> <<>>]
    /\ resp = [p \in Procs |-> <<>>]
    /\ saveCalls = [p \in Procs |-> 0]
    /\ path = [p \in Procs |-> <<>>]
    /\ before = [p \in Procs |-> AbsentFile]
    /\ submitted = 0

(***************************************************************************)
(* Values the handlers return.                                             *)
(***************************************************************************)
\* render_template(template, ...)
Render(template, data) == [kind |-> "render", target |-> template, data |-> data]
\* redirect(url_for(endpoint))
Redirect(endpoint) == [kind |-> "redirect", target |-> endpoint, data |-> <<>>]
\* a (body, 200) pair
Plain(body) == [kind |-> "plain", target |-> body, data |-> <<>>]
\* what the framework answers when an exception leaves the handler
ServerError == [kind |-> "error", target |-> "500", data |-> <<>>]

IsPost(r) == r.op = "add_course" /\ r.method = "POST"

IsWellFormed(r) == IsPost(r) /\ MissingFields(ParseForm(r.form)) = <<>>

\* the last record of that code
LastMatch(cs, code) ==
    LET hits == {i \in 1..Len(cs) : cs[i]["code"] = code}
    IN  IF hits = {} THEN NoCourse
        ELSE cs[CHOOSE i \in hits : \A j \in hits : i >= j]

\* the first record, whatever its code
FirstRecord(cs, code) == IF cs = <<>> THEN NoCourse ELSE cs[1]

\* next(course for course in courses if course['code'] == code), None
FirstMatch(cs, code) ==
    LET hits == {i \in 1..Len(cs) : cs[i]["code"] = code}
    IN  IF hits = {} THEN NoCourse
        ELSE cs[CHOOSE i \in hits : \A j \in hits : i <= j]

Tick(p) == clock' = [clock EXCEPT ![p] = @ + 1]

Root(p) == RootName(req[p])

(***************************************************************************)
(* A request arrives: the handler enters its outermost with block and sets *)
(* the span's first attributes (app.py:65-67, 75-78, 128-130, 142-144).    *)
(***************************************************************************)
RootAttrs(sp, r) ==
    LET n == RootName(r)
        m == SetAttr(sp, n, "http.method", r.method)
    IN  IF r.op = "add_course" THEN SetAttr(m, n, "http.route", "/add_course")
        ELSE IF r.op = "manual_trace" THEN SetAttr(m, n, "http.url", "/manual-trace")
        ELSE SetAttr(m, n, "user.ip", "remote_addr")

Begin(p) ==
    /\ pc[p] = "idle"
    /\ \E r \in Requests :
          /\ IsWellFormed(r) => submitted < MaxSubmits
          /\ req' = [req EXCEPT ![p] = r]
          /\ submitted' = IF IsWellFormed(r) THEN submitted + 1 ELSE submitted
          /\ spans' = [spans EXCEPT
                         ![p] = RootAttrs(StartSpan(EmptyMap, RootName(r), RootKind(r), 1), r)]
          /\ path' = [path EXCEPT ![p] = IF IsPost(r) THEN <<"Start">> ELSE <<>>]
    /\ clock' = [clock EXCEPT ![p] = 1]
    /\ before' = [before EXCEPT ![p] = file]
    /\ pc' = [pc EXCEPT ![p] = "root"]
    /\ UNCHANGED <<file, course, missing_fields, courses, exc, retval, flashed,
                   logged, resp, saveCalls>>

(***************************************************************************)
(* add_course                                                              *)
(***************************************************************************)
\* GET: app.py:115-116
RenderForm(p) ==
    /\ pc[p] = "root" /\ req[p].op = "add_course" /\ req[p].method # "POST"
    /\ spans' = [spans EXCEPT
                   ![p] = AddEvent(@, Root(p), "Rendered course addition form", EmptyMap)]
    /\ retval' = [retval EXCEPT ![p] = Render("add_course.html", <<>>)]
    /\ pc' = [pc EXCEPT ![p] = "unwinding"]
    /\ UNCHANGED <<file, req, course, missing_fields, courses, clock, exc, flashed,
                   logged, resp, saveCalls, path, before, submitted>>

\* app.py:81-85
OpenFormSpan(p) ==
    /\ pc[p] = "root" /\ IsPost(req[p])
    /\ LET c == ParseForm(req[p].form)
       IN  /\ course' = [course EXCEPT ![p] = c]
           /\ spans' = [spans EXCEPT
                          ![p] = SetAttr(StartSpan(@, FormSpan, "INTERNAL", clock[p] + 1),
                                         FormSpan, "form.data_received", c)]
    /\ Tick(p)
    /\ pc' = [pc EXCEPT ![p] = "form"]
    /\ UNCHANGED <<file, req, missing_fields, courses, exc, retval, flashed, logged,
                   resp, saveCalls, path, before, submitted>>

\* the rest of the handler indented under the with block of app.py:81
CloseFormSpanNested(p) ==
    /\ pc[p] = "form"
    /\ path' = [path EXCEPT ![p] = Append(@, "FormParsed")]
    /\ pc' = [pc EXCEPT ![p] = "parsed"]
    /\ UNCHANGED <<file, req, course, missing_fields, courses, spans, clock, exc, retval,
                   flashed, logged, resp, saveCalls, before, submitted>>

\* the end of the with block of app.py:81
CloseFormSpan(p) ==
    /\ pc[p] = "form"
    /\ spans' = [spans EXCEPT ![p] = EndSpan(@, FormSpan, clock[p] + 1)]
    /\ Tick(p)
    /\ path' = [path EXCEPT ![p] = Append(@, "FormParsed")]
    /\ pc' = [pc EXCEPT ![p] = "parsed"]
    /\ UNCHANGED <<file, req, course, missing_fields, courses, exc, retval, flashed,
                   logged, resp, saveCalls, before, submitted>>

\* app.py:87-88
OpenValidationSpan(p) ==
    /\ pc[p] = "parsed"
    /\ spans' = [spans EXCEPT ![p] = StartSpan(@, ValidationSpan, "INTERNAL", clock[p] + 1)]
    /\ missing_fields' = [missing_fields EXCEPT ![p] = MissingFields(course[p])]
    /\ Tick(p)
    /\ pc' = [pc EXCEPT ![p] = "validating"]
    /\ UNCHANGED <<file, req, course, courses, exc, retval, flashed, logged, resp,
                   saveCalls, path, before, submitted>>

\* the validation branch annotating span instead of validation_span
ValidationFailMarksRoot(p) ==
    /\ pc[p] = "validating" /\ missing_fields[p] # <<>>
    /\ LET error_message == "Missing fields: " \o JoinComma(missing_fields[p])
           marked == SetAttr(spans[p], Root(p), "error", TRUE)
           noted == AddEvent(marked, Root(p), "Validation Error",
                             [missing_fields |-> JoinComma(missing_fields[p]),
                              message |-> error_message])
       IN  /\ spans' = [spans EXCEPT ![p] = EndSpan(noted, ValidationSpan, clock[p] + 1)]
           /\ flashed' = [flashed EXCEPT ![p] = Append(@, <<error_message, "error">>)]
    /\ retval' = [retval EXCEPT ![p] = Render("add_course.html", <<>>)]
    /\ Tick(p)
    /\ path' = [path EXCEPT ![p] = Append(@, "ValidationFailed")]
    /\ pc' = [pc EXCEPT ![p] = "unwinding"]
    /\ UNCHANGED <<file, req, course, missing_fields, courses, exc, logged, resp,
                   saveCalls, before, submitted>>

\* the validation branch without its return statement
ValidationFailNoReturn(p) ==
    /\ pc[p] = "validating" /\ missing_fields[p] # <<>>
    /\ LET error_message == "Missing fields: " \o JoinComma(missing_fields[p])
           marked == SetAttr(spans[p], ValidationSpan, "error", TRUE)
           noted == AddEvent(marked, ValidationSpan, "Validation Error",
                             [missing_fields |-> JoinComma(missing_fields[p]),
                              message |-> error_message])
       IN  /\ spans' = [spans EXCEPT ![p] = EndSpan(noted, ValidationSpan, clock[p] + 1)]
           /\ flashed' = [flashed EXCEPT ![p] = Append(@, <<error_message, "error">>)]
    /\ Tick(p)
    /\ pc' = [pc EXCEPT ![p] = "validated"]
    /\ UNCHANGED <<file, req, course, missing_fields, courses, exc, retval, logged, resp,
                   saveCalls, path, before, submitted>>

\* app.py:89-99: the validation span is annotated and the handler returns
\* the form from inside its with block
ValidationFail(p) ==
    /\ pc[p] = "validating" /\ missing_fields[p] # <<>>
    /\ LET error_message == "Missing fields: " \o JoinComma(missing_fields[p])
           marked == SetAttr(spans[p], ValidationSpan, "error", TRUE)
           noted == AddEvent(marked, ValidationSpan, "Validation Error",
                             [missing_fields |-> JoinComma(missing_fields[p]),
                              message |-> error_message])
       IN  /\ spans' = [spans EXCEPT ![p] = EndSpan(noted, ValidationSpan, clock[p] + 1)]
           /\ flashed' = [flashed EXCEPT ![p] = Append(@, <<error_message, "error">>)]
    /\ retval' = [retval EXCEPT ![p] = Render("add_course.html", <<>>)]
    /\ Tick(p)
    /\ path' = [path EXCEPT ![p] = Append(@, "ValidationFailed")]
    /\ pc' = [pc EXCEPT ![p] = "unwinding"]
    /\ UNCHANGED <<file, req, course, missing_fields, courses, exc, logged, resp,
                   saveCalls, before, submitted>>

\* app.py:89 not taken; the with block of app.py:87 ends
ValidationPass(p) ==
    /\ pc[p] = "validating" /\ missing_fields[p] = <<>>
    /\ spans' = [spans EXCEPT ![p] = EndSpan(@, ValidationSpan, clock[p] + 1)]
    /\ Tick(p)
    /\ path' = [path EXCEPT ![p] = Append(@, "Validated")]
    /\ pc' = [pc EXCEPT ![p] = "validated"]
    /\ UNCHANGED <<file, req, course, missing_fields, courses, exc, retval, flashed,
                   logged, resp, saveCalls, before, submitted>>

\* app.py:102
OpenSaveSpan(p) ==
    /\ pc[p] = "validated"
    /\ spans' = [spans EXCEPT ![p] = StartSpan(@, SaveSpan, "INTERNAL", clock[p] + 1)]
    /\ Tick(p)
    /\ pc' = [pc EXCEPT ![p] = "saving"]
    /\ UNCHANGED <<file, req, course, missing_fields, courses, exc, retval, flashed,
                   logged, resp, saveCalls, path, before, submitted>>

\* app.py:104 calls save_courses, whose first statement (app.py:53) reads the file
SaveLoad(p) ==
    /\ pc[p] = "saving"
    /\ saveCalls' = [saveCalls EXCEPT ![p] = @ + 1]
    /\ LET r == load_courses(file)
       IN  IF r.ok
           THEN /\ courses' = [courses EXCEPT ![p] = r.value]
                /\ pc' = [pc EXCEPT ![p] = "loaded"]
                /\ exc' = exc
           ELSE /\ exc' = [exc EXCEPT ![p] = r.error]
                /\ pc' = [pc EXCEPT ![p] = "save_except"]
                /\ courses' = courses
    /\ UNCHANGED <<file, req, course, missing_fields, spans, clock, retval, flashed,
                   logged, resp, path, before, submitted>>

\* app.py:54-55: the record is appended to the list read, and the file is
\* opened for writing, which empties it; or the open is refused
SaveOpen(p) ==
    /\ pc[p] = "loaded"
    /\ courses' = [courses EXCEPT ![p] = Append(@, course[p])]
    /\ \/ /\ file' = MalformedFile
          /\ pc' = [pc EXCEPT ![p] = "writing"]
          /\ exc' = exc
       \/ /\ file' = file
          /\ exc' = [exc EXCEPT ![p] = "PermissionError"]
          /\ pc' = [pc EXCEPT ![p] = "save_except"]
    /\ UNCHANGED <<req, course, missing_fields, spans, clock, retval, flashed, logged,
                   resp, saveCalls, path, before, submitted>>

\* json.dump of the new record alone
DumpCoursesOnlyNew(cs) == ValidFile(<<cs[Len(cs)]>>)

\* json.dump of the list as it was read
DumpCoursesWithoutNew(cs) == ValidFile(SubSeq(cs, 1, Len(cs) - 1))

\* json.dump of the list with the new record moved to the front
DumpCoursesNewFirst(cs) == ValidFile(<<cs[Len(cs)]>> \o SubSeq(cs, 1, Len(cs) - 1))

\* what json.dump(courses, file) leaves in the file when it completes
DumpCourses(cs) == ValidFile(cs)

\* app.py:56: the whole list is written; or the write fails part-way and
\* leaves a file that does not parse
SaveDump(p) ==
    /\ pc[p] = "writing"
    /\ \/ /\ file' = DumpCourses(courses[p])
          /\ pc' = [pc EXCEPT ![p] = "saved"]
          /\ exc' = exc
       \/ /\ file' = MalformedFile
          /\ exc' = [exc EXCEPT ![p] = "OSError"]
          /\ pc' = [pc EXCEPT ![p] = "save_except"]
    /\ UNCHANGED <<req, course, missing_fields, courses, spans, clock, retval, flashed,
                   logged, resp, saveCalls, path, before, submitted>>

\* the event naming the course by its name
SavedEventAttrsName(c) == [course_code |-> c["name"]]

\* the attributes of the event of app.py:105
SavedEventAttrs(c) == [course_code |-> c["code"]]

\* app.py:105 and the end of the with block of app.py:102
SaveSucceeded(p) ==
    /\ pc[p] = "saved"
    /\ LET noted == AddEvent(spans[p], SaveSpan, "Course saved successfully",
                             SavedEventAttrs(course[p]))
       IN  spans' = [spans EXCEPT ![p] = EndSpan(noted, SaveSpan, clock[p] + 1)]
    /\ Tick(p)
    /\ path' = [path EXCEPT ![p] = Append(@, "Persisted")]
    /\ pc' = [pc EXCEPT ![p] = "persisted"]
    /\ UNCHANGED <<file, req, course, missing_fields, courses, exc, retval, flashed,
                   logged, resp, saveCalls, before, submitted>>

\* the except block of app.py:106 reduced to its raise
SaveExceptUnannotated(p) ==
    /\ pc[p] = "save_except"
    /\ spans' = [spans EXCEPT ![p] = EndSpan(@, SaveSpan, clock[p] + 1)]
    /\ Tick(p)
    /\ pc' = [pc EXCEPT ![p] = "root_except"]
    /\ UNCHANGED <<file, req, course, missing_fields, courses, exc, retval, flashed,
                   logged, resp, saveCalls, path, before, submitted>>

\* the except block of app.py:106 without its raise
SaveExceptSwallow(p) ==
    /\ pc[p] = "save_except"
    /\ LET error_message == "Failed to save course: " \o exc[p]
           marked == SetAttr(spans[p], SaveSpan, "error", TRUE)
           noted == AddEvent(marked, SaveSpan, "Database Error", [message |-> error_message])
       IN  spans' = [spans EXCEPT ![p] = EndSpan(noted, SaveSpan, clock[p] + 1)]
    /\ Tick(p)
    /\ pc' = [pc EXCEPT ![p] = "persisted"]
    /\ UNCHANGED <<file, req, course, missing_fields, courses, exc, retval, flashed,
                   logged, resp, saveCalls, path, before, submitted>>

\* the except block of app.py:106 calling save_courses again
SaveExceptRetry(p) ==
    /\ pc[p] = "save_except"
    /\ saveCalls[p] < 3
    /\ pc' = [pc EXCEPT ![p] = "saving"]
    /\ UNCHANGED <<file, req, course, missing_fields, courses, spans, clock, exc, retval,
                   flashed, logged, resp, saveCalls, path, before, submitted>>

\* app.py:106-110: the save span is annotated, the exception raised again,
\* and the with block of app.py:102 ends
SaveExcept(p) ==
    /\ pc[p] = "save_except"
    /\ LET error_message == "Failed to save course: " \o exc[p]
           marked == SetAttr(spans[p], SaveSpan, "error", TRUE)
           noted == AddEvent(marked, SaveSpan, "Database Error", [message |-> error_message])
       IN  spans' = [spans EXCEPT ![p] = EndSpan(noted, SaveSpan, clock[p] + 1)]
    /\ Tick(p)
    /\ pc' = [pc EXCEPT ![p] = "root_except"]
    /\ UNCHANGED <<file, req, course, missing_fields, courses, exc, retval, flashed,
                   logged, resp, saveCalls, path, before, submitted>>

\* the handler of app.py:118 flashing the message it logs
RootExceptLeak(p) ==
    /\ pc[p] = "root_except"
    /\ LET error_message == "Unexpected error occurred: " \o exc[p]
           marked == SetAttr(spans[p], Root(p), "error", TRUE)
       IN  /\ spans' = [spans EXCEPT
                          ![p] = AddEvent(marked, Root(p), "Unhandled Exception",
                                          [message |-> error_message])]
           /\ logged' = [logged EXCEPT ![p] = Append(@, error_message)]
           /\ flashed' = [flashed EXCEPT ![p] = Append(@, <<error_message, "error">>)]
    /\ retval' = [retval EXCEPT ![p] = Render("add_course.html", <<>>)]
    /\ path' = [path EXCEPT ![p] = Append(@, "PersistFailed")]
    /\ pc' = [pc EXCEPT ![p] = "unwinding"]
    /\ UNCHANGED <<file, req, course, missing_fields, courses, clock, exc, resp,
                   saveCalls, before, submitted>>

\* the message of app.py:123
GenericMessage == "An unexpected error occurred. Please try again later."

\* app.py:118-124
RootExcept(p) ==
    /\ pc[p] = "root_except"
    /\ LET error_message == "Unexpected error occurred: " \o exc[p]
           marked == SetAttr(spans[p], Root(p), "error", TRUE)
       IN  /\ spans' = [spans EXCEPT
                          ![p] = AddEvent(marked, Root(p), "Unhandled Exception",
                                          [message |-> error_message])]
           /\ logged' = [logged EXCEPT ![p] = Append(@, error_message)]
    /\ flashed' = [flashed EXCEPT
                     ![p] = Append(@, <<GenericMessage, "error">>)]
    /\ retval' = [retval EXCEPT ![p] = Render("add_course.html", <<>>)]
    /\ path' = [path EXCEPT ![p] = Append(@, "PersistFailed")]
    /\ pc' = [pc EXCEPT ![p] = "unwinding"]
    /\ UNCHANGED <<file, req, course, missing_fields, courses, clock, exc, resp,
                   saveCalls, before, submitted>>

\* app.py:112-113
RedirectSuccess(p) ==
    /\ pc[p] = "persisted"
    /\ flashed' = [flashed EXCEPT
                     ![p] = Append(@, <<"Course added successfully!", course[p]["name"],
                                        "success">>)]
    /\ retval' = [retval EXCEPT ![p] = Redirect("course_catalog")]
    /\ pc' = [pc EXCEPT ![p] = "unwinding"]
    /\ UNCHANGED <<file, req, course, missing_fields, courses, spans, clock, exc,
                   logged, resp, saveCalls, path, before, submitted>>

(***************************************************************************)
(* course_catalog, course_details, manual_trace                            *)
(***************************************************************************)
\* the listing recording the count before the catalog is loaded
CatalogLoadStaleCount(p) ==
    /\ pc[p] = "root" /\ req[p].op = "course_catalog"
    /\ LET r == load_courses(file)
       IN  IF r.ok
           THEN /\ courses' = [courses EXCEPT ![p] = r.value]
                /\ spans' = [spans EXCEPT
                               ![p] = SetAttr(@, Root(p), "courses.count", Len(courses[p]))]
                /\ retval' = [retval EXCEPT ![p] = Render("course_catalog.html", r.value)]
                /\ pc' = [pc EXCEPT ![p] = "unwinding"]
                /\ exc' = exc
           ELSE /\ exc' = [exc EXCEPT ![p] = r.error]
                /\ pc' = [pc EXCEPT ![p] = "propagating"]
                /\ UNCHANGED <<courses, spans, retval>>
    /\ UNCHANGED <<file, req, course, missing_fields, clock, flashed, logged, resp,
                   saveCalls, path, before, submitted>>

\* app.py:69-71; a parse failure of load_courses is not caught here
CatalogLoad(p) ==
    /\ pc[p] = "root" /\ req[p].op = "course_catalog"
    /\ LET r == load_courses(file)
       IN  IF r.ok
           THEN /\ courses' = [courses EXCEPT ![p] = r.value]
                /\ spans' = [spans EXCEPT
                               ![p] = SetAttr(@, Root(p), "courses.count", Len(r.value))]
                /\ retval' = [retval EXCEPT ![p] = Render("course_catalog.html", r.value)]
                /\ pc' = [pc EXCEPT ![p] = "unwinding"]
                /\ exc' = exc
           ELSE /\ exc' = [exc EXCEPT ![p] = r.error]
                /\ pc' = [pc EXCEPT ![p] = "propagating"]
                /\ UNCHANGED <<courses, spans, retval>>
    /\ UNCHANGED <<file, req, course, missing_fields, clock, flashed, logged, resp,
                   saveCalls, path, before, submitted>>

\* app.py:132-137; a parse failure of load_courses is not caught here
DetailsLookup(p) ==
    /\ pc[p] = "root" /\ req[p].op = "course_details"
    /\ LET r == load_courses(file)
           found == FirstMatch(r.value, req[p].key)
       IN  IF r.ok
           THEN /\ courses' = [courses EXCEPT ![p] = r.value]
                /\ course' = [course EXCEPT ![p] = found]
                /\ IF found = NoCourse
                   THEN /\ flashed' = [flashed EXCEPT
                                         ![p] = Append(@, <<"No course found with code",
                                                            req[p].key, "error">>)]
                        /\ retval' = [retval EXCEPT ![p] = Redirect("course_catalog")]
                   ELSE /\ flashed' = flashed
                        /\ retval' = [retval EXCEPT
                                        ![p] = Render("course_details.html", found)]
                /\ pc' = [pc EXCEPT ![p] = "unwinding"]
                /\ exc' = exc
           ELSE /\ exc' = [exc EXCEPT ![p] = r.error]
                /\ pc' = [pc EXCEPT ![p] = "propagating"]
                /\ UNCHANGED <<courses, course, flashed, retval>>
    /\ UNCHANGED <<file, req, missing_fields, spans, clock, logged, resp, saveCalls,
                   path, before, submitted>>

\* app.py:145-146
ManualTrace(p) ==
    /\ pc[p] = "root" /\ req[p].op = "manual_trace"
    /\ spans' = [spans EXCEPT ![p] = AddEvent(@, Root(p), "Processing request", EmptyMap)]
    /\ retval' = [retval EXCEPT ![p] = Plain("Manual trace recorded!")]
    /\ pc' = [pc EXCEPT ![p] = "unwinding"]
    /\ UNCHANGED <<file, req, course, missing_fields, courses, clock, exc, flashed,
                   logged, resp, saveCalls, path, before, submitted>>

(***************************************************************************)
(* Leaving the outermost with block.                                       *)
(***************************************************************************)
\* a return statement leaves the handler: the outermost span ends and the
\* returned value is the response
CloseRoot(p) ==
    /\ pc[p] = "unwinding"
    /\ spans' = [spans EXCEPT ![p] = EndSpan(@, Root(p), clock[p] + 1)]
    /\ Tick(p)
    /\ resp' = [resp EXCEPT ![p] = Append(@, retval[p])]
    /\ pc' = [pc EXCEPT ![p] = "done"]
    /\ UNCHANGED <<file, req, course, missing_fields, courses, exc, retval, flashed,
                   logged, saveCalls, path, before, submitted>>

\* an exception leaves the handler: the outermost span ends and the
\* framework answers for the handler
EscapeRoot(p) ==
    /\ pc[p] = "propagating"
    /\ spans' = [spans EXCEPT ![p] = EndSpan(@, Root(p), clock[p] + 1)]
    /\ Tick(p)
    /\ resp' = [resp EXCEPT ![p] = Append(@, ServerError)]
    /\ pc' = [pc EXCEPT ![p] = "done"]
    /\ UNCHANGED <<file, req, course, missing_fields, courses, exc, retval, flashed,
                   logged, saveCalls, path, before, submitted>>

\* the worker is free for the next request
Return(p) ==
    /\ pc[p] = "done"
    /\ pc' = [pc EXCEPT ![p] = "idle"]
    /\ req' = [req EXCEPT ![p] = NoReq]
    /\ course' = [course EXCEPT ![p] = NoCourse]
    /\ missing_fields' = [missing_fields EXCEPT ![p] = <<>>]
    /\ courses' = [courses EXCEPT ![p] = <<>>]
    /\ spans' = [spans EXCEPT ![p] = EmptyMap]
    /\ clock' = [clock EXCEPT ![p] = 0]
    /\ exc' = [exc EXCEPT ![p] = ""]
    /\ retval' = [retval EXCEPT ![p] = NoValue]
    /\ flashed' = [flashed EXCEPT ![p] = <<>>]
    /\ logged' = [logged EXCEPT ![p] = <<>>]
    /\ resp' = [resp EXCEPT ![p] = <<>>]
    /\ saveCalls' = [saveCalls EXCEPT ![p] = 0]
    /\ path' = [path EXCEPT ![p] = <<>>]
    /\ before' = [before EXCEPT ![p] = AbsentFile]
    /\ UNCHANGED <<file, submitted>>

(***************************************************************************)
(* Specifications.                                                         *)
(***************************************************************************)
\* no other worker is inside a handler
Alone(p) == \A q \in Procs \ {p} : pc[q] = "idle"

\* requests are handled one at a time
Next ==
    \E p \in Procs :
        \/ Alone(p) /\ Begin(p)
        \/ Alone(p) /\ RenderForm(p)
        \/ Alone(p) /\ OpenFormSpan(p)
        \/ Alone(p) /\ CloseFormSpan(p)
        \/ Alone(p) /\ OpenValidationSpan(p)
        \/ Alone(p) /\ ValidationFail(p)
        \/ Alone(p) /\ ValidationPass(p)
        \/ Alone(p) /\ OpenSaveSpan(p)
        \/ Alone(p) /\ SaveLoad(p)
        \/ Alone(p) /\ SaveOpen(p)
        \/ Alone(p) /\ SaveDump(p)
        \/ Alone(p) /\ SaveSucceeded(p)
        \/ Alone(p) /\ SaveExcept(p)
        \/ Alone(p) /\ RootExcept(p)
        \/ Alone(p) /\ RedirectSuccess(p)
        \/ Alone(p) /\ CatalogLoad(p)
        \/ Alone(p) /\ DetailsLookup(p)
        \/ Alone(p) /\ ManualTrace(p)
        \/ Alone(p) /\ CloseRoot(p)
        \/ Alone(p) /\ EscapeRoot(p)
        \/ Alone(p) /\ Return(p)

Spec == Init /\ [][Next]_vars

\* the inputs of the interleaved specification: two well-formed forms with
\* different codes, and the catalog listing
ConcurrentRequests ==
    {r \in Requests :
        \/ r.form \in {MkForm(h, {}, "empty") :
                          h \in {<< <<"A">>, <<"n">> >>, << <<"\n", "B">>, <<" ", "n">> >>}}
        \/ r.op = "course_catalog"}

ConcurrentFiles ==
    {AbsentFile, ValidFile(<< ParseForm(MkForm(<< <<"A">>, <<"n">> >>, {}, "empty")) >>)}

InitConcurrent == Init /\ file \in ConcurrentFiles

\* the workers' steps interleave freely
NextConcurrent ==
    \E p \in Procs :
        \/ Begin(p) /\ req'[p] \in ConcurrentRequests
        \/ OpenFormSpan(p)
        \/ CloseFormSpan(p)
        \/ OpenValidationSpan(p)
        \/ ValidationPass(p)
        \/ OpenSaveSpan(p)
        \/ SaveLoad(p)
        \/ SaveOpen(p)
        \/ SaveDump(p)
        \/ SaveSucceeded(p)
        \/ SaveExcept(p)
        \/ RootExcept(p)
        \/ RedirectSuccess(p)
        \/ CatalogLoad(p)
        \/ CloseRoot(p)
        \/ EscapeRoot(p)
        \/ Return(p)

SpecConcurrent == InitConcurrent /\ [][NextConcurrent]_vars

(***************************************************************************)
(* Vocabulary of the properties.                                           *)
(***************************************************************************)
Last(s) == s[Len(s)]

\* a raw value that is empty or only whitespace
IsBlankRaw(raw) == \A i \in 1..Len(raw) : raw[i] \in Whitespace

\* the required fields a form leaves absent, empty or whitespace-only
BlankFields(form) == {f \in FieldSet : f \notin DOMAIN form \/ IsBlankRaw(form[f])}

\* t is raw without its leading and trailing whitespace
IsTrimOf(t, raw) ==
    /\ t # <<>> => t[1] \notin Whitespace /\ t[Len(t)] \notin Whitespace
    /\ \E i \in 0..Len(raw) :
          /\ i + Len(t) <= Len(raw)
          /\ SubSeq(raw, i + 1, i + Len(t)) = t
          /\ \A k \in 1..Len(raw) : (k <= i \/ k > i + Len(t)) => raw[k] \in Whitespace

\* rec is the submitted form with every field trimmed
IsTrimmedSubmission(rec, form) ==
    /\ DOMAIN rec = FieldSet
    /\ \A f \in FieldSet : IsTrimOf(rec[f], FormGet(form, f))

\* the catalog the request found: the records of the file as it was
PriorCatalog(p) == before[p].courses

\* the request's handler has returned or is returning
Returning(p) == pc[p] \in {"unwinding", "done"}

\* the request's save_courses call has written the file
Written(p) ==
    \/ pc[p] \in {"saved", "persisted"}
    \/ Returning(p) /\ path[p] # <<>> /\ Last(path[p]) = "Persisted"

HasEvent(span, name, attrs) ==
    \E i \in 1..Len(span.events) : span.events[i] = [name |-> name, attrs |-> attrs]

HasEventNamed(span, name) ==
    \E i \in 1..Len(span.events) : span.events[i].name = name

IsErrored(span) == "error" \in DOMAIN span.attrs /\ span.attrs["error"] = TRUE

(***************************************************************************)
(* C1.  A submit of a record whose nine fields are all non-empty after     *)
(* trimming, against a catalog that loads, whose write succeeds, leaves    *)
(* the catalog equal to the prior catalog followed by exactly one new      *)
(* record, the trimmed submission: the prior records are kept in order and *)
(* nothing else is added.                                                  *)
(***************************************************************************)
C1_SubmitAppendsExactlyOne ==
    \A p \in Procs :
        (/\ IsPost(req[p])
         /\ BlankFields(req[p].form) = {}
         /\ before[p].kind # "malformed"
         /\ Written(p))
        => /\ file.kind = "valid"
           /\ Len(file.courses) = Len(PriorCatalog(p)) + 1
           /\ SubSeq(file.courses, 1, Len(PriorCatalog(p))) = PriorCatalog(p)
           /\ IsTrimmedSubmission(Last(file.courses), req[p].form)

\* a padded submission has been appended to a catalog of two records
C1_Witness ==
    \E p \in Procs :
        /\ pc[p] = "done" /\ IsPost(req[p]) /\ Written(p)
        /\ Len(PriorCatalog(p)) = 2
        /\ req[p].form["code"] # Last(file.courses)["code"]
        /\ req[p].form["description"] # Last(file.courses)["description"]

(***************************************************************************)
(* C2.  A submit of a record with at least one required field empty or     *)
(* whitespace-only returns the validation failure (the form is rendered    *)
(* again), reports as missing exactly the fields whose trimmed value is    *)
(* empty, and leaves the catalog as it was.                                *)
(***************************************************************************)
C2_BlankFieldRejected ==
    \A p \in Procs :
        (IsPost(req[p]) /\ BlankFields(req[p].form) # {})
        => LET expected == SelectSeq(Fields, LAMBDA f : f \in BlankFields(req[p].form))
               message == "Missing fields: " \o JoinComma(expected)
           IN  /\ file = before[p]
               /\ saveCalls[p] = 0
               /\ Returning(p)
                  => /\ Last(path[p]) = "ValidationFailed"
                     /\ missing_fields[p] = expected
                     /\ flashed[p] = << <<message, "error">> >>
                     /\ retval[p] = Render("add_course.html", <<>>)
                     /\ exc[p] = ""
               /\ pc[p] = "done" => resp[p] = <<Render("add_course.html", <<>>)>>

\* a form whose description is only whitespace has been answered
C2_Witness ==
    \E p \in Procs :
        /\ pc[p] = "done" /\ IsPost(req[p])
        /\ "description" \in DOMAIN req[p].form
        /\ req[p].form["description"] # <<>>
        /\ BlankFields(req[p].form) = {"description"}
        /\ file.kind = "valid" /\ Len(file.courses) = 2

(***************************************************************************)
(* C3.  The append is a read-modify-write that is not atomic: when two     *)
(* interleaved submits have both read the same prior catalog and both      *)
(* completed their writes, the catalog is the list one of them wrote, the  *)
(* prior catalog plus a single record, so the other's record is lost.      *)
(***************************************************************************)
\* the list the request's save_courses read, before its own record was appended
ReadBy(p) == SubSeq(courses[p], 1, Len(courses[p]) - 1)

BothWroteFromSamePrior(p, q) ==
    /\ p # q
    /\ IsPost(req[p]) /\ Written(p)
    /\ IsPost(req[q]) /\ Written(q)
    /\ ReadBy(p) = ReadBy(q)

C3_LostUpdate ==
    \A p, q \in Procs :
        BothWroteFromSamePrior(p, q)
        => /\ file.kind = "valid"
           /\ file.courses \in {courses[p], courses[q]}
           /\ Len(file.courses) = Len(ReadBy(p)) + 1
           /\ Last(courses[p]) = course[p] /\ Last(courses[q]) = course[q]

\* both submits have answered with success and the first one's record is
\* nowhere in the catalog
C3_Witness ==
    /\ BothWroteFromSamePrior(1, 2)
    /\ pc[1] = "done" /\ pc[2] = "done"
    /\ resp[1] = <<Redirect("course_catalog")>>
    /\ resp[2] = <<Redirect("course_catalog")>>
    /\ course[1] # course[2]
    /\ file.kind = "valid"
    /\ \A i \in 1..Len(file.courses) : file.courses[i] # course[1]
    /\ Last(file.courses) = course[2]

(***************************************************************************)
(* C4.  Viewing a course by key returns the first record, in insertion     *)
(* order, whose code equals the key: with several records of that code the *)
(* earliest one is returned, never a later duplicate.                      *)
(***************************************************************************)
C4_FirstMatchReturned ==
    \A p \in Procs :
        (/\ req[p].op = "course_details"
         /\ before[p].kind # "malformed"
         /\ Returning(p)
         /\ \E i \in 1..Len(PriorCatalog(p)) : PriorCatalog(p)[i]["code"] = req[p].key)
        => \E i \in 1..Len(PriorCatalog(p)) :
              /\ PriorCatalog(p)[i]["code"] = req[p].key
              /\ \A j \in 1..(i - 1) : PriorCatalog(p)[j]["code"] # req[p].key
              /\ retval[p] = Render("course_details.html", PriorCatalog(p)[i])

\* two different records share the key and the first of them was returned
C4_Witness ==
    \E p \in Procs :
        /\ pc[p] = "done" /\ req[p].op = "course_details"
        /\ Len(PriorCatalog(p)) = 2
        /\ PriorCatalog(p)[1]["code"] = req[p].key
        /\ PriorCatalog(p)[2]["code"] = req[p].key
        /\ PriorCatalog(p)[1] # PriorCatalog(p)[2]
        /\ resp[p] = <<Render("course_details.html", PriorCatalog(p)[1])>>

(***************************************************************************)
(* C5.  When the file does not exist, load_courses returns the empty list  *)
(* and raises nothing: listing the catalog records a count of 0, and a     *)
(* first submit that succeeds leaves a catalog of exactly one record.      *)
(***************************************************************************)
C5_AbsentFileLoadsEmpty ==
    \A p \in Procs :
        (pc[p] # "idle" /\ before[p].kind = "absent")
        => /\ exc[p] # "JSONDecodeError"
           /\ pc[p] # "propagating"
           /\ (req[p].op = "course_catalog" /\ Returning(p))
              => /\ courses[p] = <<>>
                 /\ spans[p][Root(p)].attrs["courses.count"] = 0
                 /\ retval[p] = Render("course_catalog.html", <<>>)
           /\ (IsPost(req[p]) /\ pc[p] \in {"loaded"}) => courses[p] = <<>>
           /\ (IsPost(req[p]) /\ Written(p))
              => /\ file.kind = "valid"
                 /\ Len(file.courses) = 1
                 /\ IsTrimmedSubmission(file.courses[1], req[p].form)

\* the first submit against an absent file has succeeded
C5_Witness ==
    \E p \in Procs :
        /\ pc[p] = "done" /\ IsPost(req[p]) /\ Written(p)
        /\ before[p].kind = "absent"
        /\ resp[p] = <<Redirect("course_catalog")>>
        /\ Len(file.courses) = 1

(***************************************************************************)
(* C6.  As stated: after a submit that saves, the span "Add Course         *)
(* Operation" carries a "Course saved successfully" event whose            *)
(* course_code is the submitted record's code.                             *)
(***************************************************************************)
C6_RootCarriesSavedEvent ==
    \A p \in Procs :
        (IsPost(req[p]) /\ pc[p] = "done" /\ Written(p))
        => \E i \in 1..Len(spans[p][Root(p)].events) :
              /\ spans[p][Root(p)].events[i].name = "Course saved successfully"
              /\ IsTrimOf(spans[p][Root(p)].events[i].attrs["course_code"],
                          FormGet(req[p].form, "code"))

(***************************************************************************)
(* C6, amended.  After a submit that saves, the span "Save Course Data", a *)
(* child of "Add Course Operation", carries the one event "Course saved    *)
(* successfully" whose course_code is the trimmed submitted code; the span *)
(* "Add Course Operation" carries no such event.                           *)
(***************************************************************************)
C6_SaveSpanCarriesSavedEvent ==
    \A p \in Procs :
        (IsPost(req[p]) /\ Returning(p) /\ Written(p))
        => /\ SaveSpan \in DOMAIN spans[p]
           /\ spans[p][SaveSpan].parent = Root(p)
           /\ Len(spans[p][SaveSpan].events) = 1
           /\ spans[p][SaveSpan].events[1].name = "Course saved successfully"
           /\ DOMAIN spans[p][SaveSpan].events[1].attrs = {"course_code"}
           /\ IsTrimOf(spans[p][SaveSpan].events[1].attrs["course_code"],
                       FormGet(req[p].form, "code"))
           /\ ~HasEventNamed(spans[p][Root(p)], "Course saved successfully")

\* storage was absent and a submit with a padded code has been saved
C6_Witness ==
    \E p \in Procs :
        /\ pc[p] = "done" /\ IsPost(req[p]) /\ Written(p)
        /\ before[p].kind = "absent"
        /\ req[p].form["code"] # course[p]["code"]
        /\ HasEvent(spans[p][SaveSpan], "Course saved successfully",
                    [course_code |-> course[p]["code"]])

(***************************************************************************)
(* C7.  In every operation and on every exit path the spans are strictly   *)
(* nested: a child span is opened after its parent and closed before it,   *)
(* the outermost span is closed when the response is produced, and no span *)
(* is open once the operation has returned.                                *)
(***************************************************************************)
C7_SpansNested ==
    \A p \in Procs :
        pc[p] # "idle"
        => LET sp == spans[p]
               r == Root(p)
           IN  /\ r \in DOMAIN sp
               /\ sp[r].parent = NoSpan
               /\ \A n \in DOMAIN sp \ {r} :
                     /\ sp[n].parent \in DOMAIN sp
                     /\ sp[sp[n].parent].start < sp[n].start
                     /\ sp[n].end = 0 => sp[sp[n].parent].end = 0
                     /\ sp[sp[n].parent].end # 0
                        => sp[n].end # 0 /\ sp[n].end < sp[sp[n].parent].end
               /\ \A n \in DOMAIN sp : sp[n].start >= 1 /\ (sp[n].end # 0 => sp[n].start <= sp[n].end)
               /\ sp[r].end # 0 <=> Len(resp[p]) = 1
               /\ pc[p] = "done" <=> sp[r].end # 0
               /\ pc[p] = "done" => \A n \in DOMAIN sp : sp[n].end # 0

\* a submit whose save raised has returned: four spans, all closed
C7_Witness ==
    \E p \in Procs :
        /\ pc[p] = "done" /\ IsPost(req[p]) /\ exc[p] # ""
        /\ DOMAIN spans[p] = {Root(p), FormSpan, ValidationSpan, SaveSpan}
        /\ \A n \in DOMAIN spans[p] : spans[p][n].end # 0
        /\ spans[p][SaveSpan].end < spans[p][Root(p)].end

(***************************************************************************)
(* C8.  Every submit goes Start, FormParsed, then ValidationFailed, or     *)
(* Validated and then Persisted or PersistFailed; it ends in exactly one   *)
(* of ValidationFailed, Persisted, PersistFailed, gives exactly one        *)
(* response there (the form again, the redirect, the generic failure), and *)
(* calls the save step at most once.                                       *)
(***************************************************************************)
SubmitPaths ==
    { <<"Start", "FormParsed", "ValidationFailed">>,
      <<"Start", "FormParsed", "Validated", "Persisted">>,
      <<"Start", "FormParsed", "Validated", "PersistFailed">> }

IsPrefix(s, t) == Len(s) <= Len(t) /\ SubSeq(t, 1, Len(s)) = s

C8_SubmitStateMachine ==
    \A p \in Procs :
        IsPost(req[p])
        => /\ \E t \in SubmitPaths : IsPrefix(path[p], t)
           /\ saveCalls[p] <= 1
           /\ Returning(p) => path[p] \in SubmitPaths
           /\ path[p] \in SubmitPaths => pc[p] \in {"persisted", "unwinding", "done"}
           /\ pc[p] # "done" => resp[p] = <<>>
           /\ pc[p] = "done"
              => /\ Len(resp[p]) = 1 /\ Len(flashed[p]) = 1
                 /\ Last(path[p]) = "ValidationFailed"
                    => /\ resp[p][1] = Render("add_course.html", <<>>)
                       /\ flashed[p][1] =
                             <<"Missing fields: " \o JoinComma(missing_fields[p]), "error">>
                       /\ saveCalls[p] = 0
                 /\ Last(path[p]) = "Persisted"
                    => /\ resp[p][1] = Redirect("course_catalog")
                       /\ Last(flashed[p][1]) = "success"
                       /\ saveCalls[p] = 1
                 /\ Last(path[p]) = "PersistFailed"
                    => /\ resp[p][1] = Render("add_course.html", <<>>)
                       /\ flashed[p][1] = <<GenericMessage, "error">>
                       /\ saveCalls[p] = 1

\* a submit has ended in PersistFailed after one call of the save step
C8_Witness ==
    \E p \in Procs :
        /\ pc[p] = "done" /\ IsPost(req[p])
        /\ path[p] = <<"Start", "FormParsed", "Validated", "PersistFailed">>
        /\ saveCalls[p] = 1
        /\ Len(resp[p]) = 1

(***************************************************************************)
(* C9.  In a submit, an exception raised inside the try block is caught at *)
(* the outermost span: that span is marked errored, gets an "Unhandled     *)
(* Exception" event carrying the error message, and the generic failure is *)
(* returned; no exception leaves the submit operation.                     *)
(***************************************************************************)
C9_ExceptionCaughtAtRoot ==
    \A p \in Procs :
        req[p].op = "add_course"
        => /\ pc[p] # "propagating"
           /\ pc[p] = "done" => resp[p] # <<ServerError>>
           /\ (exc[p] # "" /\ Returning(p))
              => LET message == "Unexpected error occurred: " \o exc[p]
                 IN  /\ IsErrored(spans[p][Root(p)])
                     /\ HasEvent(spans[p][Root(p)], "Unhandled Exception",
                                 [message |-> message])
                     /\ logged[p] = <<message>>
                     /\ flashed[p] = << <<GenericMessage, "error">> >>
                     /\ retval[p] = Render("add_course.html", <<>>)
           /\ (exc[p] # "" /\ pc[p] = "done") => resp[p] = <<Render("add_course.html", <<>>)>>

\* a submit whose json.dump failed has been answered with the form
C9_Witness ==
    \E p \in Procs :
        /\ pc[p] = "done" /\ IsPost(req[p])
        /\ exc[p] = "OSError"
        /\ resp[p] = <<Render("add_course.html", <<>>)>>
        /\ IsErrored(spans[p][Root(p)])

(***************************************************************************)
(* C10.  Whenever validation finds a missing field, the span "Validate     *)
(* Form Data" is marked errored with an event listing the missing fields,  *)
(* and in that request the span "Save Course Data" is never opened and     *)
(* save_courses is never called.                                           *)
(***************************************************************************)
C10_ValidationShortCircuits ==
    \A p \in Procs :
        (IsPost(req[p]) /\ missing_fields[p] # <<>>)
        => /\ SaveSpan \notin DOMAIN spans[p]
           /\ saveCalls[p] = 0
           /\ pc[p] \in {"validating", "unwinding", "done"}
           /\ Returning(p)
              => /\ IsErrored(spans[p][ValidationSpan])
                 /\ spans[p][ValidationSpan].events =
                       << [name |-> "Validation Error",
                           attrs |-> [missing_fields |-> JoinComma(missing_fields[p]),
                                      message |-> "Missing fields: "
                                                     \o JoinComma(missing_fields[p])]] >>

\* a form without code and description has been answered
C10_Witness ==
    \E p \in Procs :
        /\ pc[p] = "done" /\ IsPost(req[p])
        /\ missing_fields[p] = <<"code", "description">>
        /\ HasEventNamed(spans[p][ValidationSpan], "Validation Error")
        /\ spans[p][ValidationSpan].events[1].attrs["missing_fields"] = "code, description"

(***************************************************************************)
(* C11.  For a catalog that loads and a key that is the code of none of    *)
(* its records, viewing a course by key gives the not-found outcome, a     *)
(* redirect to the catalog listing with a message; no exception is raised  *)
(* and the catalog is unchanged.                                           *)
(***************************************************************************)
C11_UnknownKeyNotFound ==
    \A p \in Procs :
        (/\ req[p].op = "course_details"
         /\ before[p].kind # "malformed"
         /\ \A i \in 1..Len(PriorCatalog(p)) : PriorCatalog(p)[i]["code"] # req[p].key)
        => /\ file = before[p]
           /\ exc[p] = ""
           /\ pc[p] # "propagating"
           /\ Returning(p)
              => /\ retval[p] = Redirect("course_catalog")
                 /\ flashed[p] = << <<"No course found with code", req[p].key, "error">> >>
           /\ pc[p] = "done" => resp[p] = <<Redirect("course_catalog")>>

\* a key that no record of a non-empty catalog has was looked up
C11_Witness ==
    \E p \in Procs :
        /\ pc[p] = "done" /\ req[p].op = "course_details"
        /\ req[p].key = <<"Z">>
        /\ file.kind = "valid" /\ Len(file.courses) >= 1
        /\ resp[p] = <<Redirect("course_catalog")>>

(***************************************************************************)
(* C12.  When save_courses fails inside the span "Save Course Data", the   *)
(* failure is annotated at two levels in order: first the save span is     *)
(* marked errored and gets a "Database Error" event (and no "Course saved  *)
(* successfully" event) and closes; only afterwards the outermost span is  *)
(* marked errored and gets the "Unhandled Exception" event.  Both spans    *)
(* end errored and the submit ends in PersistFailed.                       *)
(***************************************************************************)
SaveAnnotated(p) ==
    /\ IsErrored(spans[p][SaveSpan])
    /\ spans[p][SaveSpan].events =
          << [name |-> "Database Error",
              attrs |-> [message |-> "Failed to save course: " \o exc[p]]] >>
    /\ spans[p][SaveSpan].end # 0

RootAnnotated(p) ==
    /\ IsErrored(spans[p][Root(p)])
    /\ spans[p][Root(p)].events =
          << [name |-> "Unhandled Exception",
              attrs |-> [message |-> "Unexpected error occurred: " \o exc[p]]] >>

C12_TwoLevelAnnotation ==
    \A p \in Procs :
        IsPost(req[p])
        => /\ pc[p] = "save_except"
              => /\ exc[p] # ""
                 /\ spans[p][SaveSpan].end = 0
                 /\ ~IsErrored(spans[p][SaveSpan]) /\ spans[p][SaveSpan].events = <<>>
                 /\ ~IsErrored(spans[p][Root(p)]) /\ spans[p][Root(p)].events = <<>>
           /\ pc[p] = "root_except"
              => /\ SaveAnnotated(p)
                 /\ ~IsErrored(spans[p][Root(p)]) /\ spans[p][Root(p)].events = <<>>
                 /\ spans[p][Root(p)].end = 0
           /\ (exc[p] # "" /\ Returning(p))
              => /\ SaveAnnotated(p)
                 /\ RootAnnotated(p)
                 /\ Last(path[p]) = "PersistFailed"
           /\ IsErrored(spans[p][Root(p)]) => SaveSpan \in DOMAIN spans[p] /\ SaveAnnotated(p)

\* the open of the file was refused and the submit has returned
C12_Witness ==
    \E p \in Procs :
        /\ pc[p] = "done" /\ IsPost(req[p])
        /\ exc[p] = "PermissionError"
        /\ SaveAnnotated(p) /\ RootAnnotated(p)
        /\ path[p] = <<"Start", "FormParsed", "Validated", "PersistFailed">>

(***************************************************************************)
(* C13.  Over requests handled one after the other without I/O failure the *)
(* catalog only grows by appending: the catalog an operation found is a    *)
(* prefix of the catalog it leaves, so no stored record is ever deleted,   *)
(* edited or reordered.                                                    *)
(***************************************************************************)
C13_CatalogOnlyGrows ==
    \A p \in Procs :
        (pc[p] = "done" /\ exc[p] = "")
        => \/ file = before[p]
           \/ /\ IsPost(req[p])
              /\ before[p].kind # "malformed"
              /\ file.kind = "valid"
              /\ Len(file.courses) = Len(PriorCatalog(p)) + 1
              /\ IsPrefix(PriorCatalog(p), file.courses)

\* the second of two submits has extended a catalog of two records
C13_Witness ==
    \E p \in Procs :
        /\ pc[p] = "done" /\ exc[p] = "" /\ IsPost(req[p])
        /\ submitted = 2
        /\ Len(PriorCatalog(p)) = 2
        /\ file.kind = "valid" /\ Len(file.courses) = 3
        /\ file.courses[1] = PriorCatalog(p)[1] /\ file.courses[2] = PriorCatalog(p)[2]
        /\ file.courses[3] # file.courses[1]

(***************************************************************************)
(* C14.  On the exception path of submit the response is a fixed generic   *)
(* message that does not depend on the exception: two requests that failed *)
(* with different errors get the same response and the same flashed        *)
(* message, and the error text is only in the span events and the log.     *)
(***************************************************************************)
C14_FailureResponseIndependentOfError ==
    \A p, q \in Procs :
        (/\ IsPost(req[p]) /\ exc[p] # "" /\ Returning(p)
         /\ IsPost(req[q]) /\ exc[q] # "" /\ Returning(q))
        => /\ retval[p] = retval[q]
           /\ flashed[p] = flashed[q]
           /\ (pc[p] = "done" /\ pc[q] = "done") => resp[p] = resp[q]
           /\ logged[p] = <<"Unexpected error occurred: " \o exc[p]>>
           /\ HasEvent(spans[p][Root(p)], "Unhandled Exception",
                       [message |-> "Unexpected error occurred: " \o exc[p]])
           /\ HasEvent(spans[p][SaveSpan], "Database Error",
                       [message |-> "Failed to save course: " \o exc[p]])

\* two submits of the same form failed with different errors and were
\* answered alike, while their logs differ
C14_Witness ==
    /\ pc[1] = "done" /\ pc[2] = "done"
    /\ IsPost(req[1]) /\ req[2] = req[1]
    /\ exc[1] = "PermissionError" /\ exc[2] = "OSError"
    /\ resp[1] = resp[2] /\ flashed[1] = flashed[2]
    /\ logged[1] # logged[2]

(***************************************************************************)
(* C15.  As stated: starting from a catalog whose records all have the     *)
(* nine required fields non-empty, after submits every record of the       *)
(* catalog has exactly the nine fields, each non-empty and without leading *)
(* or trailing whitespace.                                                 *)
(***************************************************************************)
HasNineNonEmpty(rec) == DOMAIN rec = FieldSet /\ \A f \in FieldSet : rec[f] # <<>>

IsTrimmedRecord(rec) ==
    /\ HasNineNonEmpty(rec)
    /\ \A f \in FieldSet : rec[f][1] \notin Whitespace /\ Last(rec[f]) \notin Whitespace

C15_NonEmptyStartGivesTrimmedCatalog ==
    \A p \in Procs :
        (/\ IsPost(req[p]) /\ pc[p] = "done"
         /\ \A i \in 1..Len(PriorCatalog(p)) : HasNineNonEmpty(PriorCatalog(p)[i]))
        => \A i \in 1..Len(file.courses) : IsTrimmedRecord(file.courses[i])

(***************************************************************************)
(* C15, amended.  Starting from a catalog whose records all have the nine  *)
(* required fields non-empty and without leading or trailing whitespace,   *)
(* after submits every record of the catalog still has exactly the nine    *)
(* fields, each non-empty and without leading or trailing whitespace: a    *)
(* record reaches the store only trimmed and validated.                    *)
(***************************************************************************)
C15_TrimmedCatalogStaysTrimmed ==
    \A p \in Procs :
        (/\ IsPost(req[p])
         /\ \A i \in 1..Len(PriorCatalog(p)) : IsTrimmedRecord(PriorCatalog(p)[i]))
        => \A i \in 1..Len(file.courses) : IsTrimmedRecord(file.courses[i])

\* a padded submission has been stored, trimmed, behind a trimmed record
C15_Witness ==
    \E p \in Procs :
        /\ pc[p] = "done" /\ IsPost(req[p]) /\ Written(p)
        /\ Len(PriorCatalog(p)) = 1 /\ IsTrimmedRecord(PriorCatalog(p)[1])
        /\ Len(file.courses) = 2
        /\ req[p].form["name"] # file.courses[2]["name"]
        /\ IsTrimmedRecord(file.courses[2])

(***************************************************************************)
(* C16.  In a submit the child spans are opened in the order "Handle Form  *)
(* Data", "Validate Form Data", "Save Course Data", each only after the    *)
(* one before it has closed: at most one child span of the outermost span  *)
(* is open at any time and a later span is never opened before an earlier  *)
(* one.                                                                    *)
(***************************************************************************)
ClosedBefore(sp, a, b) == a \in DOMAIN sp /\ sp[a].end # 0 /\ sp[a].end < sp[b].start

C16_ChildSpansInOrder ==
    \A p \in Procs :
        IsPost(req[p])
        => LET sp == spans[p]
               children == DOMAIN sp \ {Root(p)}
           IN  /\ children \subseteq {FormSpan, ValidationSpan, SaveSpan}
               /\ \A n \in children : sp[n].parent = Root(p)
               /\ ValidationSpan \in children => ClosedBefore(sp, FormSpan, ValidationSpan)
               /\ SaveSpan \in children => ClosedBefore(sp, ValidationSpan, SaveSpan)
               /\ Cardinality({n \in children : sp[n].end = 0}) <= 1

\* the save span is open, after the two spans before it were opened and closed
C16_Witness ==
    \E p \in Procs :
        /\ pc[p] = "loaded" /\ IsPost(req[p])
        /\ DOMAIN spans[p] = {Root(p), FormSpan, ValidationSpan, SaveSpan}
        /\ spans[p][SaveSpan].end = 0
        /\ spans[p][FormSpan].start < spans[p][ValidationSpan].start
        /\ spans[p][ValidationSpan].start < spans[p][SaveSpan].start

(***************************************************************************)
(* C17.  The outermost span of add_course is marked errored only if an     *)
(* exception was raised in the request: on the Persisted path, on the GET  *)
(* path and on the ValidationFailed path it is not marked errored and has  *)
(* no "Unhandled Exception" event; a validation failure marks only the     *)
(* span "Validate Form Data".                                              *)
(***************************************************************************)
C17_RootErroredOnlyOnException ==
    \A p \in Procs :
        req[p].op = "add_course"
        => /\ IsErrored(spans[p][Root(p)]) => exc[p] # ""
           /\ HasEventNamed(spans[p][Root(p)], "Unhandled Exception") => exc[p] # ""
           /\ (Returning(p) /\ (req[p].method = "GET" \/ Last(path[p]) \in {"Persisted", "ValidationFailed"}))
              => /\ exc[p] = ""
                 /\ "error" \notin DOMAIN spans[p][Root(p)].attrs
                 /\ ~HasEventNamed(spans[p][Root(p)], "Unhandled Exception")
           /\ (Returning(p) /\ req[p].method = "POST" /\ Last(path[p]) = "ValidationFailed")
              => /\ IsErrored(spans[p][ValidationSpan])
                 /\ \A n \in DOMAIN spans[p] \ {ValidationSpan} : ~IsErrored(spans[p][n])

\* a submit has ended in ValidationFailed: the validation span alone is errored
C17_Witness ==
    \E p \in Procs :
        /\ pc[p] = "done" /\ IsPost(req[p])
        /\ Last(path[p]) = "ValidationFailed"
        /\ IsErrored(spans[p][ValidationSpan])
        /\ ~IsErrored(spans[p][Root(p)])
        /\ spans[p][Root(p)].events = <<>>

(***************************************************************************)
(* C18.  When the file is present but does not parse, load_courses raises  *)
(* a parse failure instead of returning a list; in a submit this happens   *)
(* inside save_courses before the file is opened for writing, so the       *)
(* submit ends in the generic failure and the file is left as it was.      *)
(***************************************************************************)
C18_MalformedFileFailsSubmit ==
    \A p \in Procs :
        (IsPost(req[p]) /\ before[p].kind = "malformed")
        => /\ file = before[p]
           /\ pc[p] \notin {"loaded", "writing", "saved", "persisted"}
           /\ saveCalls[p] = 1 => exc[p] = "JSONDecodeError"
           /\ (Returning(p) /\ BlankFields(req[p].form) = {})
              => /\ saveCalls[p] = 1
                 /\ Last(path[p]) = "PersistFailed"
                 /\ retval[p] = Render("add_course.html", <<>>)
                 /\ flashed[p] = << <<GenericMessage, "error">> >>
                 /\ HasEvent(spans[p][SaveSpan], "Database Error",
                             [message |-> "Failed to save course: JSONDecodeError"])

\* a well-formed submit against a file that does not parse has been answered
C18_Witness ==
    \E p \in Procs :
        /\ pc[p] = "done" /\ IsPost(req[p])
        /\ before[p].kind = "malformed" /\ file.kind = "malformed"
        /\ exc[p] = "JSONDecodeError"
        /\ resp[p] = <<Render("add_course.html", <<>>)>>

(***************************************************************************)
(* C19.  The read-only operations (listing the catalog, viewing a course   *)
(* by key, the add-course form by GET, the manual probe) never write the   *)
(* catalog: the file after each equals the file before it, they open no    *)
(* child span, and the count the listing records is the number of records  *)
(* loaded.                                                                 *)
(***************************************************************************)
IsReadOnly(r) ==
    \/ r.op \in {"course_catalog", "course_details", "manual_trace"}
    \/ r.op = "add_course" /\ r.method = "GET"

C19_ReadOnlyOperations ==
    \A p \in Procs :
        IsReadOnly(req[p])
        => /\ file = before[p]
           /\ DOMAIN spans[p] = {Root(p)}
           /\ saveCalls[p] = 0
           /\ (req[p].op = "course_catalog" /\ Returning(p) /\ exc[p] = "")
              => /\ spans[p][Root(p)].attrs["courses.count"] = Len(PriorCatalog(p))
                 /\ courses[p] = PriorCatalog(p)
                 /\ retval[p] = Render("course_catalog.html", PriorCatalog(p))

\* a catalog of two records has been listed
C19_Witness ==
    \E p \in Procs :
        /\ pc[p] = "done" /\ req[p].op = "course_catalog"
        /\ file.kind = "valid" /\ Len(file.courses) = 2
        /\ spans[p][Root(p)].attrs["courses.count"] = 2
        /\ DOMAIN spans[p] = {Root(p)}

====
